---- MODULE Spec2Model ----
(***************************************************************************)
(* Safety layer of the ESP32 flight controller                             *)
(* (firmware/esp32-flight-controller/safety_layer.h).                      *)
(*                                                                         *)
(* The file-scope singletons safetyConfig, safetyState and                 *)
(* stepperSafetyConfig are the state; every inline function of the header  *)
(* is one atomic action.                                                   *)
(* millis() is the variable now, a non-decreasing clock advanced by Tick.  *)
(* Voltages (float in the source) are counted in tenths of a volt, which   *)
(* keeps the order of the readings used here (2.9 < 3.0 < 4.2).            *)
(***************************************************************************)
EXTENDS Integers, FiniteSets, Sequences, TLC

VARIABLES safetyConfig, safetyState, stepperSafetyConfig, now, booted,
          lastOp, lastArg, retInt, retBool, tasks

vars == <<safetyConfig, safetyState, stepperSafetyConfig, now, booted,
          lastOp, lastArg, retInt, retBool, tasks>>

(***************************************************************************)
(* Bounds of the model.                                                    *)
(***************************************************************************)
\* Check calls are explored while the violation counter is below this cap.
MaxViolations == 2

(***************************************************************************)
(* Program constants: the default configuration and initial state.        *)
(***************************************************************************)
DefaultMaxMotorPWM == 200
DefaultEmergencyStopCm == 8
DefaultSpeedReduceCm == 20
DefaultMaxContinuousMs == 30000
DefaultHostTimeoutMs == 5000
\* 3.0f volts
DefaultMinBatteryVoltage == 30
\* 4.2f volts
FullBatteryVoltage == 42

DefaultSafetyConfig ==
  [ maxMotorPWM       |-> DefaultMaxMotorPWM,
    emergencyStopCm   |-> DefaultEmergencyStopCm,
    speedReduceCm     |-> DefaultSpeedReduceCm,
    maxContinuousMs   |-> DefaultMaxContinuousMs,
    hostTimeoutMs     |-> DefaultHostTimeoutMs,
    minBatteryVoltage |-> DefaultMinBatteryVoltage ]

\* Default stepper configuration (USE_STEPPER_MOTORS).
DefaultMaxStepsPerSecond == 1024
DefaultMaxContinuousSteps == 40960
DefaultHostHeartbeatMs == 2000
DefaultMaxCoilCurrentMa == 300

DefaultStepperSafetyConfig ==
  [ maxStepsPerSecond  |-> DefaultMaxStepsPerSecond,
    maxContinuousSteps |-> DefaultMaxContinuousSteps,
    hostHeartbeatMs    |-> DefaultHostHeartbeatMs,
    maxCoilCurrentMa   |-> DefaultMaxCoilCurrentMa ]

InitialSafetyState ==
  [ emergencyStopped    |-> FALSE,
    motorStartTime      |-> 0,
    lastHostCommandTime |-> 0,
    currentMaxPWM       |-> DefaultMaxMotorPWM,
    violations          |-> 0,
    motorRunning        |-> FALSE,
    lastBatteryVoltage  |-> FullBatteryVoltage ]

(***************************************************************************)
(* Inputs.  safety_update_config takes any SafetyConfig: besides the       *)
(* default, one that tightens every limit and one that is degenerate, with *)
(* an empty reduce band (speedReduceCm <= emergencyStopCm) and a negative  *)
(* PWM limit.                                                              *)
(***************************************************************************)
LowSafetyConfig ==
  [ maxMotorPWM       |-> 150,
    emergencyStopCm   |-> 10,
    speedReduceCm     |-> 18,
    maxContinuousMs   |-> 5000,
    hostTimeoutMs     |-> 1,
    minBatteryVoltage |-> FullBatteryVoltage ]

DegenerateSafetyConfig ==
  [ DefaultSafetyConfig EXCEPT !.maxMotorPWM = -50,
                               !.emergencyStopCm = 20,
                               !.speedReduceCm = 20 ]

Configs == { DefaultSafetyConfig, LowSafetyConfig, DegenerateSafetyConfig }

\* stepper_safety_update_config takes any StepperSafetyConfig: the default
\* and one whose heartbeat timeout equals the base monitor's default.
SlowStepperSafetyConfig ==
  [ maxStepsPerSecond  |-> 512,
    maxContinuousSteps |-> 2048,
    hostHeartbeatMs    |-> DefaultHostTimeoutMs,
    maxCoilCurrentMa   |-> 300 ]

StepperConfigs == { DefaultStepperSafetyConfig, SlowStepperSafetyConfig }

\* Further configurations for the calls whose result depends on the limits
\* only: a reduce band whose width does not divide the products, a negative
\* PWM limit with a proper band, and a band given in reverse order.
OddSafetyConfig ==
  [ DefaultSafetyConfig EXCEPT !.maxMotorPWM = 100,
                               !.emergencyStopCm = 5,
                               !.speedReduceCm = 12 ]

NegativeSafetyConfig ==
  [ DefaultSafetyConfig EXCEPT !.maxMotorPWM = -50 ]

ReversedSafetyConfig ==
  [ DefaultSafetyConfig EXCEPT !.emergencyStopCm = 20,
                               !.speedReduceCm = 8 ]

WideConfigs == Configs \cup { OddSafetyConfig, NegativeSafetyConfig,
                              ReversedSafetyConfig }

\* A stepper configuration with negative limits.
NegativeStepperSafetyConfig ==
  [ DefaultStepperSafetyConfig EXCEPT !.maxStepsPerSecond = -100,
                                      !.maxContinuousSteps = -10 ]

WideStepperConfigs == StepperConfigs \cup { NegativeStepperSafetyConfig }

\* Distance readings around every threshold of WideConfigs.
WideDistances == -1 .. 22

\* Requested step rates and step counts: below, inside and above the limits.
SpeedRequests == { -7, 0, 300, 512, 1024, 2000 }

StepRequests == { -50000, -40960, -2048, -3, 0, 5, 2048, 40960, 50000 }

\* Requested PWM values: below zero, inside the limits, at and above them.
PWMValues == { -5, 0, 100, 150, 200, 255 }

\* The requests safety_clamp_motors is called with.
Requests == { -5, 100 }

\* Distance readings in cm.
Distances == { 8, 14, 20, 21 }

\* Battery readings in tenths of a volt: 2.9 V, below every configured
\* minimum, and 4.2 V, above the default minimum and equal to the raised one.
Voltages == { 29, FullBatteryVoltage }

\* Instants at which millis() is observed: boot, one tick later, at and
\* just past the 5000 ms timeouts, and past the longest timeout.
TimePoints == { 0, 1,
                DefaultHostTimeoutMs, DefaultHostTimeoutMs + 1,
                DefaultMaxContinuousMs + 1 }

\* Values of millis() when setup() runs.
BootTimes == { 0, 1 }

(***************************************************************************)
(* Helpers.                                                                *)
(***************************************************************************)
\* C integer division truncates toward zero.
TruncDiv(a, b) ==
  IF (a >= 0) = (b > 0)
    THEN (IF a >= 0 THEN a ELSE -a) \div (IF b > 0 THEN b ELSE -b)
    ELSE -((IF a >= 0 THEN a ELSE -a) \div (IF b > 0 THEN b ELSE -b))

\* map() that rounds the quotient to the nearest integer.
map_rounding(x, in_min, in_max, out_min, out_max) ==
  TruncDiv((x - in_min) * (out_max - out_min) + TruncDiv(in_max - in_min, 2),
           in_max - in_min) + out_min

\* Arduino map(): (x - in_min) * (out_max - out_min) / (in_max - in_min)
\* + out_min, in integer arithmetic.
map(x, in_min, in_max, out_min, out_max) ==
  TruncDiv((x - in_min) * (out_max - out_min), in_max - in_min) + out_min

\* millis() - t on unsigned long; the clock never runs behind a timestamp.
Elapsed(t) == now - t

\* The statements of safety_update_config with the configuration written
\* last.
update_config_order_config_last == << "latch", "ceiling", "config" >>

\* The statements of safety_update_config(), in program order: the
\* assignment of the configuration, the test of the latch, the assignment of
\* the ceiling.
update_config_order == << "config", "latch", "ceiling" >>

\* The statements of safety_clamp_motors(), in program order: the test of
\* the latch, the comparison with the ceiling and the assignment it guards,
\* the comparison with the configured maximum and the assignment it guards,
\* the test for a negative value with its assignment of a constant.
clamp_motors_order ==
  << "latch", "ceiling_test", "ceiling_assign",
     "config_test", "config_assign", "floor" >>

\* A call that has returned: its position is past its last statement.
Returned(order) == Len(order) + 1

\* No safety_clamp_motors and no safety_update_config call is in progress
\* (position 0); the other fields hold the locals of the two calls and the
\* state and configuration at the moment the calls began.  loaded is the
\* value a comparison of safety_clamp_motors read, and reloads tells whether
\* the build reads the variable again for the assignment the comparison
\* guards, as the source writes it, or reuses the value it loaded.
IdleTasks ==
  [ clamp  |-> [ pc |-> 0, requestedPWM |-> 0, clamped |-> 0,
                 loaded |-> 0, reloads |-> FALSE ],
    update |-> [ pc |-> 0, newConfig |-> DefaultSafetyConfig,
                 emergencyStopped |-> FALSE ],
    entry  |-> [ safetyState |-> InitialSafetyState,
                 safetyConfig |-> DefaultSafetyConfig ] ]

(***************************************************************************)
(* State after the static initialisers, before setup() has run.            *)
(***************************************************************************)
Init ==
  /\ safetyConfig = DefaultSafetyConfig
  /\ safetyState = InitialSafetyState
  /\ stepperSafetyConfig = DefaultStepperSafetyConfig
  /\ now \in BootTimes
  /\ booted = FALSE
  /\ lastOp = "none"
  /\ lastArg = 0
  /\ retInt = 0
  /\ retBool = TRUE
  /\ tasks = IdleTasks

\* The bookkeeping of a call that returns nothing (0 stands for no argument;
\* a configuration is recorded by its maxMotorPWM, which tells the
\* configurations used here apart).
Called(op, arg) ==
  /\ lastOp' = op
  /\ lastArg' = arg
  /\ retInt' = 0
  /\ retBool' = TRUE

\* Time passes between two calls.
Tick ==
  /\ booted
  /\ \E t \in TimePoints : t > now /\ now' = t
  /\ Called("tick", 0)
  /\ UNCHANGED <<safetyConfig, safetyState, stepperSafetyConfig, booted,
               tasks>>

\* safety_init that leaves the heartbeat timestamp at 0.
init_without_heartbeat ==
  [ emergencyStopped    |-> FALSE,
    motorStartTime      |-> 0,
    lastHostCommandTime |-> 0,
    currentMaxPWM       |-> safetyConfig.maxMotorPWM,
    violations          |-> 0,
    motorRunning        |-> FALSE,
    lastBatteryVoltage  |-> FullBatteryVoltage ]

\* The state safety_init() writes.
init ==
  [ emergencyStopped    |-> FALSE,
    motorStartTime      |-> 0,
    lastHostCommandTime |-> now,
    currentMaxPWM       |-> safetyConfig.maxMotorPWM,
    violations          |-> 0,
    motorRunning        |-> FALSE,
    lastBatteryVoltage  |-> FullBatteryVoltage ]

\* safety_init(), called once in setup().
SafetyInit ==
  /\ ~booted
  /\ booted' = TRUE
  /\ safetyState' = init
  /\ Called("init", 0)
  /\ UNCHANGED <<safetyConfig, stepperSafetyConfig, now, tasks>>

\* safety_emergency_stop() applied to a state record.
emergency_stop(s) ==
  [ s EXCEPT !.emergencyStopped = TRUE, !.currentMaxPWM = 0 ]

\* safety_clamp_motors without its last test (clamped < 0).
clamp_motors_no_floor(requestedPWM) ==
  IF safetyState.emergencyStopped
    THEN 0
    ELSE LET c1 == IF requestedPWM > safetyState.currentMaxPWM
                     THEN safetyState.currentMaxPWM ELSE requestedPWM
         IN  IF c1 > safetyConfig.maxMotorPWM
               THEN safetyConfig.maxMotorPWM ELSE c1

\* safety_clamp_motors without its first test (emergencyStopped).
clamp_motors_no_latch(requestedPWM) ==
  LET c1 == IF requestedPWM > safetyState.currentMaxPWM
              THEN safetyState.currentMaxPWM ELSE requestedPWM
      c2 == IF c1 > safetyConfig.maxMotorPWM
              THEN safetyConfig.maxMotorPWM ELSE c1
  IN  IF c2 < 0 THEN 0 ELSE c2

\* The value safety_clamp_motors(requestedPWM) returns.
clamp_motors(requestedPWM) ==
  IF safetyState.emergencyStopped
    THEN 0
    ELSE LET c1 == IF requestedPWM > safetyState.currentMaxPWM
                     THEN safetyState.currentMaxPWM ELSE requestedPWM
             c2 == IF c1 > safetyConfig.maxMotorPWM
                     THEN safetyConfig.maxMotorPWM ELSE c1
         IN  IF c2 < 0 THEN 0 ELSE c2

safety_clamp_motors(requestedPWM) ==
  /\ booted
  /\ lastOp' = "clamp_motors"
  /\ lastArg' = requestedPWM
  /\ retInt' = clamp_motors(requestedPWM)
  /\ retBool' = TRUE
  /\ UNCHANGED <<safetyConfig, safetyState, stepperSafetyConfig, now, booted,
               tasks>>

safety_host_heartbeat ==
  /\ booted
  /\ safetyState' = [ safetyState EXCEPT !.lastHostCommandTime = now ]
  /\ Called("host_heartbeat", 0)
  /\ UNCHANGED <<safetyConfig, stepperSafetyConfig, now, booted, tasks>>

\* safety_motor_started that keeps the start time of a motor already running.
motor_started_keeping_start(s) ==
  IF s.motorRunning
    THEN s
    ELSE [ s EXCEPT !.motorStartTime = now, !.motorRunning = TRUE ]

\* safety_motor_started() applied to a state record.
motor_started(s) ==
  [ s EXCEPT !.motorStartTime = now, !.motorRunning = TRUE ]

safety_motor_started ==
  /\ booted
  /\ safetyState' = motor_started(safetyState)
  /\ Called("motor_started", 0)
  /\ UNCHANGED <<safetyConfig, stepperSafetyConfig, now, booted, tasks>>

safety_motor_stopped ==
  /\ booted
  /\ safetyState' = [ safetyState EXCEPT !.motorRunning = FALSE ]
  /\ Called("motor_stopped", 0)
  /\ UNCHANGED <<safetyConfig, stepperSafetyConfig, now, booted, tasks>>

safety_emergency_stop ==
  /\ booted
  /\ safetyState' = emergency_stop(safetyState)
  /\ Called("emergency_stop", 0)
  /\ UNCHANGED <<safetyConfig, stepperSafetyConfig, now, booted, tasks>>

\* safety_reset that also clears the violation counter.
reset_clearing_violations(s) ==
  [ s EXCEPT !.emergencyStopped = FALSE,
             !.currentMaxPWM = safetyConfig.maxMotorPWM,
             !.motorRunning = FALSE,
             !.violations = 0 ]

\* safety_reset that leaves the motor-running flag alone.
reset_keeping_motor(s) ==
  [ s EXCEPT !.emergencyStopped = FALSE,
             !.currentMaxPWM = safetyConfig.maxMotorPWM ]

\* safety_reset that also refreshes the heartbeat timestamp.
reset_refreshing_heartbeat(s) ==
  [ s EXCEPT !.emergencyStopped = FALSE,
             !.currentMaxPWM = safetyConfig.maxMotorPWM,
             !.motorRunning = FALSE,
             !.lastHostCommandTime = now ]

\* safety_reset() applied to a state record.
reset(s) ==
  [ s EXCEPT !.emergencyStopped = FALSE,
             !.currentMaxPWM = safetyConfig.maxMotorPWM,
             !.motorRunning = FALSE ]

safety_reset ==
  /\ booted
  /\ safetyState' = reset(safetyState)
  /\ Called("reset", 0)
  /\ UNCHANGED <<safetyConfig, stepperSafetyConfig, now, booted, tasks>>

\* The heartbeat test of safety_check with >= in place of >.
HostTimedOutInclusive(s) ==
  Elapsed(s.lastHostCommandTime) >= safetyConfig.hostTimeoutMs

\* The two timeout conditions of safety_check(), read on a state record.
HostTimedOut(s) ==
  Elapsed(s.lastHostCommandTime) > safetyConfig.hostTimeoutMs

RunTimedOut(s) ==
  s.motorRunning /\ Elapsed(s.motorStartTime) > safetyConfig.maxContinuousMs

\* A trigger of safety_check that counts only when it sets the latch.
violation_once(s) ==
  IF s.emergencyStopped
    THEN s
    ELSE [ emergency_stop(s) EXCEPT !.violations = @ + 1 ]

\* One trigger of safety_check(): emergency stop, then violations++.
violation(s) ==
  [ emergency_stop(s) EXCEPT !.violations = @ + 1 ]

\* The state safety_check() leaves: step 1, then step 2 on its result.
check(s) ==
  LET s1 == IF HostTimedOut(s) THEN violation(s) ELSE s
      s2 == IF RunTimedOut(s1) THEN violation(s1) ELSE s1
  IN  s2

\* safety_check returning the latch as it was on entry.
check_result_on_entry(s) == ~s.emergencyStopped

\* The value safety_check() returns, read on the state it leaves.
check_result(s) == ~check(s).emergencyStopped

safety_check ==
  /\ booted
  /\ safetyState.violations < MaxViolations
  /\ safetyState' = check(safetyState)
  /\ lastOp' = "check"
  /\ lastArg' = 0
  /\ retInt' = 0
  /\ retBool' = check_result(safetyState)
  /\ UNCHANGED <<safetyConfig, stepperSafetyConfig, now, booted, tasks>>

\* The second test of safety_update_distance without the return before it.
interpolates_without_return(distanceCm) ==
  distanceCm <= safetyConfig.speedReduceCm

\* The distances for which safety_update_distance calls map(): those that
\* pass the first test without returning and satisfy the second.
interpolates(distanceCm) ==
  /\ ~(distanceCm <= safetyConfig.emergencyStopCm)
  /\ distanceCm <= safetyConfig.speedReduceCm

\* safety_update_distance that releases the latch once the obstacle is far.
update_distance_recovering(s, distanceCm) ==
  IF distanceCm <= safetyConfig.emergencyStopCm
    THEN emergency_stop(s)
    ELSE IF distanceCm <= safetyConfig.speedReduceCm
      THEN [ s EXCEPT !.currentMaxPWM =
               map(distanceCm, safetyConfig.emergencyStopCm,
                   safetyConfig.speedReduceCm, 0, safetyConfig.maxMotorPWM) ]
      ELSE [ s EXCEPT !.currentMaxPWM = safetyConfig.maxMotorPWM,
                      !.emergencyStopped = FALSE ]

\* safety_update_distance with the two ends of the input range of map()
\* exchanged.
update_distance_inverted(s, distanceCm) ==
  IF distanceCm <= safetyConfig.emergencyStopCm
    THEN emergency_stop(s)
    ELSE IF distanceCm <= safetyConfig.speedReduceCm
      THEN [ s EXCEPT !.currentMaxPWM =
               map(distanceCm, safetyConfig.speedReduceCm,
                   safetyConfig.emergencyStopCm, 0, safetyConfig.maxMotorPWM) ]
      ELSE [ s EXCEPT !.currentMaxPWM = safetyConfig.maxMotorPWM ]

\* safety_update_distance(distanceCm) applied to a state record.
update_distance(s, distanceCm) ==
  IF distanceCm <= safetyConfig.emergencyStopCm
    THEN emergency_stop(s)
    ELSE IF interpolates(distanceCm)
      THEN [ s EXCEPT !.currentMaxPWM =
               map(distanceCm, safetyConfig.emergencyStopCm,
                   safetyConfig.speedReduceCm, 0, safetyConfig.maxMotorPWM) ]
      ELSE [ s EXCEPT !.currentMaxPWM = safetyConfig.maxMotorPWM ]

safety_update_distance(distanceCm) ==
  /\ booted
  /\ safetyState' = update_distance(safetyState, distanceCm)
  /\ Called("update_distance", distanceCm)
  /\ UNCHANGED <<safetyConfig, stepperSafetyConfig, now, booted, tasks>>

\* safety_update_battery that counts the undervoltage as a violation.
update_battery_counting(s, voltage) ==
  LET s1 == [ s EXCEPT !.lastBatteryVoltage = voltage ]
  IN  IF voltage < safetyConfig.minBatteryVoltage
        THEN [ emergency_stop(s1) EXCEPT !.violations = @ + 1 ]
        ELSE s1

\* safety_update_battery(voltage) applied to a state record.
update_battery(s, voltage) ==
  LET s1 == [ s EXCEPT !.lastBatteryVoltage = voltage ]
  IN  IF voltage < safetyConfig.minBatteryVoltage
        THEN emergency_stop(s1)
        ELSE s1

safety_update_battery(voltage) ==
  /\ booted
  /\ safetyState' = update_battery(safetyState, voltage)
  /\ Called("update_battery", voltage)
  /\ UNCHANGED <<safetyConfig, stepperSafetyConfig, now, booted, tasks>>

\* safety_update_config without its test of emergencyStopped.
update_config_ceiling_unguarded(s, newConfig) == newConfig.maxMotorPWM

\* The ceiling safety_update_config(newConfig) leaves.
update_config_ceiling(s, newConfig) ==
  IF ~s.emergencyStopped THEN newConfig.maxMotorPWM ELSE s.currentMaxPWM

safety_update_config(newConfig) ==
  /\ booted
  /\ safetyConfig' = newConfig
  /\ safetyState' = [ safetyState EXCEPT !.currentMaxPWM =
                        update_config_ceiling(safetyState, newConfig) ]
  /\ Called("update_config", newConfig.maxMotorPWM)
  /\ UNCHANGED <<stepperSafetyConfig, now, booted, tasks>>

\* The heartbeat test of stepper_safety_check with >= in place of >.
StepperTimedOutInclusive(s) ==
  Elapsed(s.lastHostCommandTime) >= stepperSafetyConfig.hostHeartbeatMs

\* The heartbeat test of stepper_safety_check(), against the same timestamp.
StepperTimedOut(s) ==
  Elapsed(s.lastHostCommandTime) > stepperSafetyConfig.hostHeartbeatMs

\* stepper_safety_check without the return after its own trigger: the base
\* check runs as well.
stepper_check_no_return(s) ==
  IF StepperTimedOut(s) THEN check(violation(s)) ELSE check(s)

\* The state stepper_safety_check() leaves.
stepper_check(s) ==
  IF StepperTimedOut(s) THEN violation(s) ELSE check(s)

\* The value stepper_safety_check() returns.
stepper_check_result(s) ==
  IF StepperTimedOut(s) THEN FALSE ELSE check_result(s)

stepper_safety_check ==
  /\ booted
  /\ safetyState.violations < MaxViolations
  /\ safetyState' = stepper_check(safetyState)
  /\ lastOp' = "stepper_check"
  /\ lastArg' = 0
  /\ retInt' = 0
  /\ retBool' = stepper_check_result(safetyState)
  /\ UNCHANGED <<safetyConfig, stepperSafetyConfig, now, booted, tasks>>

stepper_safety_update_config(newConfig) ==
  /\ booted
  /\ stepperSafetyConfig' = newConfig
  /\ Called("stepper_update_config", 0)
  /\ UNCHANGED <<safetyConfig, safetyState, now, booted, tasks>>

\* The value stepper_safety_clamp_speed(requestedSpeed) returns.
clamp_speed(requestedSpeed) ==
  IF safetyState.emergencyStopped
    THEN 0
    ELSE IF requestedSpeed > stepperSafetyConfig.maxStepsPerSecond
      THEN stepperSafetyConfig.maxStepsPerSecond
      ELSE IF requestedSpeed < 0 THEN 0 ELSE requestedSpeed

stepper_safety_clamp_speed(requestedSpeed) ==
  /\ booted
  /\ lastOp' = "clamp_speed"
  /\ lastArg' = requestedSpeed
  /\ retInt' = clamp_speed(requestedSpeed)
  /\ retBool' = TRUE
  /\ UNCHANGED <<safetyConfig, safetyState, stepperSafetyConfig, now, booted,
               tasks>>

\* stepper_safety_clamp_steps without its test of the negative limit.
clamp_steps_one_sided(requestedSteps) ==
  IF safetyState.emergencyStopped
    THEN 0
    ELSE IF requestedSteps > stepperSafetyConfig.maxContinuousSteps
      THEN stepperSafetyConfig.maxContinuousSteps
      ELSE requestedSteps

\* The value stepper_safety_clamp_steps(requestedSteps) returns.
clamp_steps(requestedSteps) ==
  IF safetyState.emergencyStopped
    THEN 0
    ELSE IF requestedSteps > stepperSafetyConfig.maxContinuousSteps
      THEN stepperSafetyConfig.maxContinuousSteps
      ELSE IF requestedSteps < -stepperSafetyConfig.maxContinuousSteps
        THEN -stepperSafetyConfig.maxContinuousSteps
        ELSE requestedSteps

stepper_safety_clamp_steps(requestedSteps) ==
  /\ booted
  /\ lastOp' = "clamp_steps"
  /\ lastArg' = requestedSteps
  /\ retInt' = clamp_steps(requestedSteps)
  /\ retBool' = TRUE
  /\ UNCHANGED <<safetyConfig, safetyState, stepperSafetyConfig, now, booted,
               tasks>>

\* Every call except the replacement of the configuration.
Calls ==
  \/ Tick
  \/ SafetyInit
  \/ \E requestedPWM \in Requests : safety_clamp_motors(requestedPWM)
  \/ safety_host_heartbeat
  \/ safety_motor_started
  \/ safety_motor_stopped
  \/ safety_emergency_stop
  \/ safety_reset
  \/ safety_check
  \/ \E distanceCm \in Distances : safety_update_distance(distanceCm)
  \/ \E voltage \in Voltages : safety_update_battery(voltage)
  \/ stepper_safety_check
  \/ \E newConfig \in StepperConfigs : stepper_safety_update_config(newConfig)

\* The host may send any configuration.
Next ==
  \/ Calls
  \/ \E newConfig \in Configs : safety_update_config(newConfig)

Spec == Init /\ [][Next]_vars

\* The host only sends configurations whose PWM limit is not negative.
NonNegativeConfigs == { c \in Configs : c.maxMotorPWM >= 0 }

NextNonNegative ==
  \/ Calls
  \/ \E newConfig \in NonNegativeConfigs : safety_update_config(newConfig)

SpecNonNegative == Init /\ [][NextNonNegative]_vars

(***************************************************************************)
(* The calls whose result depends only on the configuration, the latch and *)
(* the ceiling, run over the wider inputs.  The initial states are those   *)
(* setup() leaves once the host has sent its configurations: safety_init,  *)
(* safety_update_config and stepper_safety_update_config have run.         *)
(***************************************************************************)
InitInputs ==
  /\ safetyConfig \in WideConfigs
  /\ stepperSafetyConfig \in WideStepperConfigs
  /\ now \in BootTimes
  /\ safetyState = init
  /\ booted = TRUE
  /\ lastOp = "none"
  /\ lastArg = 0
  /\ retInt = 0
  /\ retBool = TRUE
  /\ tasks = IdleTasks

NextInputs ==
  \/ \E distanceCm \in WideDistances : safety_update_distance(distanceCm)
  \/ safety_emergency_stop
  \/ safety_reset
  \/ \E requestedSpeed \in SpeedRequests :
       stepper_safety_clamp_speed(requestedSpeed)
  \/ \E requestedSteps \in StepRequests :
       stepper_safety_clamp_steps(requestedSteps)

SpecInputs == InitInputs /\ [][NextInputs]_vars

TypeOK ==
  /\ safetyConfig \in Configs
  /\ stepperSafetyConfig \in StepperConfigs
  /\ safetyState.emergencyStopped \in BOOLEAN
  /\ safetyState.motorRunning \in BOOLEAN
  /\ safetyState.violations \in 0..(MaxViolations + 1)
  /\ safetyState.motorStartTime \in 0..now
  /\ safetyState.lastHostCommandTime \in 0..now
  /\ safetyState.lastBatteryVoltage \in Voltages
  /\ now \in TimePoints

(***************************************************************************)
(* One safety_clamp_motors call on the loop and one safety_update_config   *)
(* call on another context, with no lock, interleaved statement by         *)
(* statement.  Before the two calls begin the state is prepared by the     *)
(* calls that move the latch and the ceiling.                              *)
(***************************************************************************)
\* The requests of the interleaved safety_clamp_motors call.
ClampRequests == { -5, 120, 300 }

Idle == tasks.clamp.pc = 0 /\ tasks.update.pc = 0

\* One statement of safety_clamp_motors on the locals t of the call, reading
\* the state s and the configuration c as they are when it runs.
clamp_statement(stmt, t, s, c) ==
  CASE stmt = "latch" ->
         IF s.emergencyStopped
           THEN [ t EXCEPT !.clamped = 0, !.pc = Returned(clamp_motors_order) ]
           ELSE [ t EXCEPT !.clamped = t.requestedPWM, !.pc = @ + 1 ]
    [] stmt = "ceiling_test" ->
         [ t EXCEPT !.loaded = s.currentMaxPWM,
                    !.pc = IF t.clamped > s.currentMaxPWM
                             THEN @ + 1 ELSE @ + 2 ]
    [] stmt = "ceiling_assign" ->
         [ t EXCEPT !.clamped = IF t.reloads
                                  THEN s.currentMaxPWM ELSE t.loaded,
                    !.pc = @ + 1 ]
    [] stmt = "config_test" ->
         [ t EXCEPT !.loaded = c.maxMotorPWM,
                    !.pc = IF t.clamped > c.maxMotorPWM
                             THEN @ + 1 ELSE @ + 2 ]
    [] stmt = "config_assign" ->
         [ t EXCEPT !.clamped = IF t.reloads
                                  THEN c.maxMotorPWM ELSE t.loaded,
                    !.pc = @ + 1 ]
    [] stmt = "floor" ->
         [ t EXCEPT !.clamped = IF @ < 0 THEN 0 ELSE @, !.pc = @ + 1 ]

\* The two calls begin.
Begin(requestedPWM, newConfig, reloads) ==
  /\ booted
  /\ Idle
  /\ tasks' =
       [ clamp  |-> [ pc |-> 1, requestedPWM |-> requestedPWM,
                      clamped |-> 0, loaded |-> 0, reloads |-> reloads ],
         update |-> [ pc |-> 1, newConfig |-> newConfig,
                      emergencyStopped |-> FALSE ],
         entry  |-> [ safetyState |-> safetyState,
                      safetyConfig |-> safetyConfig ] ]
  /\ UNCHANGED <<safetyConfig, safetyState, stepperSafetyConfig, now, booted,
                 lastOp, lastArg, retInt, retBool>>

\* safety_clamp_motors runs its next statement; past the last one it returns
\* the local clamped.
ClampStep ==
  /\ tasks.clamp.pc \in 1 .. Len(clamp_motors_order)
  /\ LET t == clamp_statement(clamp_motors_order[tasks.clamp.pc],
                              tasks.clamp, safetyState, safetyConfig)
     IN  /\ tasks' = [ tasks EXCEPT !.clamp = t ]
         /\ IF t.pc = Returned(clamp_motors_order)
              THEN /\ lastOp' = "clamp_motors"
                   /\ lastArg' = t.requestedPWM
                   /\ retInt' = t.clamped
                   /\ retBool' = TRUE
              ELSE UNCHANGED <<lastOp, lastArg, retInt, retBool>>
  /\ UNCHANGED <<safetyConfig, safetyState, stepperSafetyConfig, now, booted>>

\* safety_update_config runs its next statement.
UpdateStep ==
  /\ tasks.update.pc \in 1 .. Len(update_config_order)
  /\ LET t    == tasks.update
         stmt == update_config_order[t.pc]
     IN  /\ safetyConfig' =
              IF stmt = "config" THEN t.newConfig ELSE safetyConfig
         /\ safetyState' =
              IF stmt = "ceiling" /\ ~t.emergencyStopped
                THEN [ safetyState EXCEPT
                         !.currentMaxPWM = safetyConfig.maxMotorPWM ]
                ELSE safetyState
         /\ tasks' =
              [ tasks EXCEPT !.update =
                  [ t EXCEPT !.pc = @ + 1,
                             !.emergencyStopped =
                               IF stmt = "latch"
                                 THEN safetyState.emergencyStopped ELSE @ ] ]
         /\ IF t.pc = Len(update_config_order)
              THEN Called("update_config", t.newConfig.maxMotorPWM)
              ELSE UNCHANGED <<lastOp, lastArg, retInt, retBool>>
  /\ UNCHANGED <<stepperSafetyConfig, now, booted>>

NextInterleaved ==
  \/ \E distanceCm \in Distances :
       Idle /\ safety_update_distance(distanceCm)
  \/ Idle /\ safety_emergency_stop
  \/ Idle /\ safety_reset
  \/ \E requestedPWM \in ClampRequests, newConfig \in Configs,
          reloads \in BOOLEAN :
       Begin(requestedPWM, newConfig, reloads)
  \/ ClampStep
  \/ UpdateStep

SpecInterleaved == InitInputs /\ [][NextInterleaved]_vars

(***************************************************************************)
(* Properties.                                                             *)
(***************************************************************************)
Min(a, b) == IF a <= b THEN a ELSE b

Latched == safetyState.emergencyStopped

\* C1: under configurations whose maxMotorPWM is >= 0, in every reachable
\* state and for every requested value, negative ones included,
\* safety_clamp_motors returns r with
\* 0 <= r <= min(currentMaxPWM, maxMotorPWM).
C1_ClampWithinCeiling ==
  LET top == Min(safetyState.currentMaxPWM, safetyConfig.maxMotorPWM)
  IN  /\ \A requestedPWM \in PWMValues :
           /\ 0 <= clamp_motors(requestedPWM)
           /\ clamp_motors(requestedPWM) <= top
      /\ lastOp = "clamp_motors" => (0 <= retInt /\ retInt <= top)

\* A negative request was clamped while a distance reduction was in effect.
C1_Witness ==
  /\ lastOp = "clamp_motors"
  /\ lastArg < 0
  /\ ~Latched
  /\ safetyState.currentMaxPWM < safetyConfig.maxMotorPWM

\* C2: whenever the emergency latch is set, safety_clamp_motors returns 0
\* for every requested value, whatever calls were made since the latch was
\* set.
C2_LatchedClampIsZero ==
  Latched =>
    /\ \A requestedPWM \in PWMValues : clamp_motors(requestedPWM) = 0
    /\ lastOp = "clamp_motors" => retInt = 0

\* A positive request was clamped while latched, after a later distance
\* reading had raised currentMaxPWM again.
C2_Witness ==
  /\ Latched
  /\ lastOp = "clamp_motors"
  /\ lastArg > 0
  /\ safetyState.currentMaxPWM > 0

\* C3: once the latch is true it stays true across every call except
\* safety_reset, both check variants included.
C3_LatchOneWay ==
  [][ (Latched /\ lastOp' # "reset") => safetyState'.emergencyStopped ]_vars

\* A distance beyond the reduce band was reported while latched.
C3_Witness ==
  /\ Latched
  /\ lastOp = "update_distance"
  /\ lastArg > safetyConfig.speedReduceCm
  /\ lastArg > safetyConfig.emergencyStopCm

\* C4: in every reachable state, if the emergency latch is true then
\* currentMaxPWM equals 0.
C4_LatchedCeilingIsZero ==
  Latched => safetyState.currentMaxPWM = 0

\* C5: in every reachable state 0 <= currentMaxPWM <= maxMotorPWM of the
\* configuration in effect.
C5_CeilingWithinConfig ==
  /\ 0 <= safetyState.currentMaxPWM
  /\ safetyState.currentMaxPWM <= safetyConfig.maxMotorPWM

\* C6: after safety_init, no call (safety_reset, safety_emergency_stop,
\* safety_update_config and both check variants included) leaves the
\* violation counter smaller than it was before the call.
C6_ViolationsNeverDecrease ==
  [][ booted => safetyState'.violations >= safetyState.violations ]_vars

\* safety_reset ran with violations on the counter.
C6_Witness ==
  /\ lastOp = "reset"
  /\ safetyState.violations >= 1

\* C7: safety_reset can be called in any state after boot; it leaves the
\* latch clear, currentMaxPWM equal to maxMotorPWM and motorRunning false,
\* and leaves the violation counter, both timestamps, the last battery
\* voltage and the configuration as they were.
C7_ResetEffect ==
  /\ [](booted => ENABLED safety_reset)
  /\ [][ lastOp' = "reset" =>
           /\ ~safetyState'.emergencyStopped
           /\ safetyState'.currentMaxPWM = safetyConfig.maxMotorPWM
           /\ ~safetyState'.motorRunning
           /\ safetyState'.violations = safetyState.violations
           /\ safetyState'.lastHostCommandTime = safetyState.lastHostCommandTime
           /\ safetyState'.motorStartTime = safetyState.motorStartTime
           /\ safetyState'.lastBatteryVoltage = safetyState.lastBatteryVoltage
           /\ safetyConfig' = safetyConfig ]_vars

\* safety_reset ran after an undervoltage reading and a counted violation.
C7_Witness ==
  /\ lastOp = "reset"
  /\ ~Latched
  /\ safetyState.violations >= 1
  /\ safetyState.lastBatteryVoltage < safetyConfig.minBatteryVoltage

\* The two triggers of safety_check as the claim words them.
HostTrigger ==
  now - safetyState.lastHostCommandTime > safetyConfig.hostTimeoutMs

RunTrigger ==
  /\ safetyState.motorRunning
  /\ now - safetyState.motorStartTime > safetyConfig.maxContinuousMs

Triggers ==
  (IF HostTrigger THEN 1 ELSE 0) + (IF RunTrigger THEN 1 ELSE 0)

\* C8: safety_check adds to the violation counter exactly the number of
\* triggers that fire in the call (strictly-greater comparisons, so none at
\* elapsed = timeout) and sets the latch iff at least one fires.
C8_CheckCountsTriggers ==
  [][ lastOp' = "check" =>
        /\ safetyState'.violations = safetyState.violations + Triggers
        /\ safetyState'.emergencyStopped = (Latched \/ Triggers > 0) ]_vars

\* safety_check ran with both timeouts exceeded and counted them.
C8_Witness ==
  /\ lastOp = "check"
  /\ HostTrigger
  /\ RunTrigger
  /\ safetyState.violations = 2

\* C9 as stated: safety_check returns false iff the latch is true when the
\* call is made.
C9_ReturnsLatchOnEntry ==
  [][ lastOp' = "check" => (retBool' = ~Latched) ]_vars

\* C9 amended: safety_check returns false iff the latch is true when the
\* call returns.
C9_ReturnsLatchOnReturn ==
  lastOp = "check" => (retBool = ~Latched)

\* safety_check returned false after counting a violation.
C9_Witness ==
  /\ lastOp = "check"
  /\ ~retBool
  /\ safetyState.violations = 1

\* C10: safety_update_distance and safety_update_battery leave the violation
\* counter, both timestamps and motorRunning as they were; a distance
\* <= emergencyStopCm or a voltage < minBatteryVoltage sets the latch and a
\* zero ceiling.
C10_SensorUpdatesFrame ==
  [][ lastOp' \in { "update_distance", "update_battery" } =>
        /\ safetyState'.violations = safetyState.violations
        /\ safetyState'.lastHostCommandTime = safetyState.lastHostCommandTime
        /\ safetyState'.motorStartTime = safetyState.motorStartTime
        /\ safetyState'.motorRunning = safetyState.motorRunning
        /\ ( \/ lastOp' = "update_distance"
                  /\ lastArg' <= safetyConfig.emergencyStopCm
             \/ lastOp' = "update_battery"
                  /\ lastArg' < safetyConfig.minBatteryVoltage )
           => ( safetyState'.emergencyStopped
                /\ safetyState'.currentMaxPWM = 0 ) ]_vars

\* An undervoltage reading latched a monitor that had counted no violation.
C10_Witness ==
  /\ lastOp = "update_battery"
  /\ lastArg < safetyConfig.minBatteryVoltage
  /\ Latched
  /\ safetyState.violations = 0

\* The quotient n / m of C for m > 0: rounded toward zero.
Quotient(n, m) == IF n >= 0 THEN n \div m ELSE -((-n) \div m)

\* C11: for every configuration with emergencyStopCm < speedReduceCm and
\* every distance d, safety_update_distance(d) sets the latch if
\* d <= emergencyStopCm, sets currentMaxPWM to the truncating quotient
\* (d - emergencyStopCm) * maxMotorPWM / (speedReduceCm - emergencyStopCm)
\* if emergencyStopCm < d <= speedReduceCm, and sets currentMaxPWM to
\* maxMotorPWM if d > speedReduceCm.
C11_DistanceCeiling ==
  [][ ( /\ lastOp' = "update_distance"
        /\ safetyConfig.emergencyStopCm < safetyConfig.speedReduceCm ) =>
      LET d == lastArg'
          stop == safetyConfig.emergencyStopCm
          reduce == safetyConfig.speedReduceCm
          top == safetyConfig.maxMotorPWM
      IN  IF d <= stop
            THEN safetyState'.emergencyStopped
            ELSE IF d <= reduce
              THEN safetyState'.currentMaxPWM =
                     Quotient((d - stop) * top, reduce - stop)
              ELSE safetyState'.currentMaxPWM = top ]_vars

\* A reading inside the band whose quotient is not exact: (8 - 5) * 100 / 7
\* leaves a ceiling of 42.
C11_Witness ==
  /\ lastOp = "update_distance"
  /\ safetyConfig = OddSafetyConfig
  /\ lastArg = 8
  /\ safetyState.currentMaxPWM = 42

InBand(d) ==
  /\ safetyConfig.emergencyStopCm < d
  /\ d <= safetyConfig.speedReduceCm

\* Two successive readings d1 <= d2 above emergencyStopCm leave ceilings in
\* the same order, and a reading inside the band leaves a ceiling of at
\* most maxMotorPWM.
MonotonicStep ==
  lastOp' = "update_distance" =>
    /\ ( /\ lastOp = "update_distance"
         /\ safetyConfig.emergencyStopCm < lastArg
         /\ lastArg <= lastArg' )
       => safetyState.currentMaxPWM <= safetyState'.currentMaxPWM
    /\ InBand(lastArg')
       => safetyState'.currentMaxPWM <= safetyConfig.maxMotorPWM

\* C12 as stated: under any fixed configuration, for distances d1 <= d2 both
\* above emergencyStopCm the ceiling set for d1 is <= the ceiling set for
\* d2, and the ceiling set inside the reduce band never exceeds maxMotorPWM.
C12_DistanceMonotonic == [][ MonotonicStep ]_vars

\* C12 amended: the same, under any fixed configuration whose maxMotorPWM
\* is >= 0.
C12_DistanceMonotonicNonNegative ==
  [][ safetyConfig.maxMotorPWM >= 0 => MonotonicStep ]_vars

\* A reading strictly inside the band left a ceiling strictly between 0 and
\* maxMotorPWM.
C12_Witness ==
  /\ lastOp = "update_distance"
  /\ InBand(lastArg)
  /\ 0 < safetyState.currentMaxPWM
  /\ safetyState.currentMaxPWM < safetyConfig.maxMotorPWM

\* C13: safety_update_config(newConfig) replaces the whole configuration;
\* with the latch clear it sets currentMaxPWM to newConfig.maxMotorPWM
\* whatever the ceiling was, with the latch set it leaves the latch and
\* currentMaxPWM as they were; the violation counter, both timestamps and
\* motorRunning are unchanged in both cases.
C13_UpdateConfigEffect ==
  [][ lastOp' = "update_config" =>
        /\ safetyConfig' \in Configs
        /\ safetyConfig'.maxMotorPWM = lastArg'
        /\ safetyState'.emergencyStopped = safetyState.emergencyStopped
        /\ safetyState'.currentMaxPWM =
             (IF Latched THEN safetyState.currentMaxPWM
                         ELSE safetyConfig'.maxMotorPWM)
        /\ safetyState'.violations = safetyState.violations
        /\ safetyState'.lastHostCommandTime = safetyState.lastHostCommandTime
        /\ safetyState'.motorStartTime = safetyState.motorStartTime
        /\ safetyState'.motorRunning = safetyState.motorRunning ]_vars

\* The configuration was replaced while latched: the ceiling is still 0,
\* not the new maxMotorPWM.
C13_Witness ==
  /\ lastOp = "update_config"
  /\ Latched
  /\ safetyConfig = LowSafetyConfig
  /\ safetyState.currentMaxPWM = 0

\* C14: safety_emergency_stop called in a state in which the latch is
\* already set leaves the whole SafetyState as it was.
C14_EmergencyStopIdempotent ==
  [][ (Latched /\ lastOp' = "emergency_stop") => safetyState' = safetyState ]_vars

\* The stepper heartbeat trigger as the claim words it.
StepperTrigger ==
  now - safetyState.lastHostCommandTime > stepperSafetyConfig.hostHeartbeatMs

\* C15: stepper_safety_check, when the time since lastHostCommandTime is
\* strictly greater than the stepper heartbeat timeout, sets the latch, adds
\* exactly 1 to the violation counter and returns false without running the
\* base check (a continuous-run timeout at the same time is not counted);
\* otherwise its result and its effect are those of safety_check.
C15_StepperCheckEffect ==
  [][ lastOp' = "stepper_check" =>
        IF StepperTrigger
          THEN /\ safetyState'.emergencyStopped
               /\ safetyState'.violations = safetyState.violations + 1
               /\ retBool' = FALSE
          ELSE /\ safetyState'.violations = safetyState.violations + Triggers
               /\ safetyState'.emergencyStopped = (Latched \/ Triggers > 0)
               /\ retBool' = ~safetyState'.emergencyStopped
               /\ safetyState' = check(safetyState) ]_vars

\* The stepper heartbeat timed out while the continuous-run timeout was also
\* exceeded, and the call counted one violation only.
C15_Witness ==
  /\ lastOp = "stepper_check"
  /\ StepperTrigger
  /\ RunTrigger
  /\ ~retBool
  /\ safetyState.violations = 1

\* C16: while the stepper heartbeat timeout is <= hostTimeoutMs, a
\* stepper_safety_check call never takes the heartbeat branch of the base
\* check (whenever the base timeout is exceeded the stepper test has already
\* returned), so the call adds at most 1 to the violation counter.
C16_BaseHeartbeatShadowed ==
  [][ ( /\ lastOp' = "stepper_check"
        /\ stepperSafetyConfig.hostHeartbeatMs <= safetyConfig.hostTimeoutMs ) =>
        /\ ~StepperTrigger => ~HostTrigger
        /\ HostTrigger =>
             /\ safetyState'.violations = safetyState.violations + 1
             /\ retBool' = FALSE
        /\ safetyState'.violations <= safetyState.violations + 1 ]_vars

\* With the stepper timeout below the base timeout, a stepper check ran with
\* the base heartbeat timeout and the continuous-run timeout both exceeded
\* and counted one violation.
C16_Witness ==
  /\ lastOp = "stepper_check"
  /\ stepperSafetyConfig.hostHeartbeatMs < safetyConfig.hostTimeoutMs
  /\ HostTrigger
  /\ RunTrigger
  /\ safetyState.violations = 1

\* A clamp call returns 0 while latched and changes no state.
ClampLatchedAndFrame ==
  lastOp' \in { "clamp_speed", "clamp_steps" } =>
    /\ Latched => retInt' = 0
    /\ UNCHANGED <<safetyConfig, safetyState, stepperSafetyConfig>>

\* With the latch clear stepper_safety_clamp_speed returns a value in
\* [0, maxStepsPerSecond], the request itself if it is in that range.
ClampSpeedRange ==
  (lastOp' = "clamp_speed" /\ ~Latched) =>
    /\ 0 <= retInt'
    /\ retInt' <= stepperSafetyConfig.maxStepsPerSecond
    /\ (0 <= lastArg' /\ lastArg' <= stepperSafetyConfig.maxStepsPerSecond)
         => retInt' = lastArg'

\* With the latch clear stepper_safety_clamp_steps returns a value in
\* [-maxContinuousSteps, maxContinuousSteps], the request itself if it is in
\* that range.
ClampStepsRange ==
  (lastOp' = "clamp_steps" /\ ~Latched) =>
    /\ -stepperSafetyConfig.maxContinuousSteps <= retInt'
    /\ retInt' <= stepperSafetyConfig.maxContinuousSteps
    /\ ( /\ -stepperSafetyConfig.maxContinuousSteps <= lastArg'
         /\ lastArg' <= stepperSafetyConfig.maxContinuousSteps )
         => retInt' = lastArg'

\* C17 as stated: while the latch is set both stepper clamps return 0 for
\* every input; while it is clear clamp_speed(r) lies in
\* [0, maxStepsPerSecond] and clamp_steps(r) in
\* [-maxContinuousSteps, +maxContinuousSteps], each returning r unchanged
\* when r is inside its range; neither clamp modifies any state.
C17_StepperClamps ==
  [][ ClampLatchedAndFrame /\ ClampSpeedRange /\ ClampStepsRange ]_vars

\* C17 amended: the same, the range of clamp_speed being claimed for
\* maxStepsPerSecond >= 0 and the range of clamp_steps for
\* maxContinuousSteps >= 0.
C17_StepperClampsNonNegative ==
  [][ /\ ClampLatchedAndFrame
      /\ stepperSafetyConfig.maxStepsPerSecond >= 0 => ClampSpeedRange
      /\ stepperSafetyConfig.maxContinuousSteps >= 0 => ClampStepsRange ]_vars

\* With the latch clear a step count below -maxContinuousSteps was clamped
\* to -maxContinuousSteps.
C17_Witness ==
  /\ lastOp = "clamp_steps"
  /\ ~Latched
  /\ stepperSafetyConfig.maxContinuousSteps > 0
  /\ lastArg < -stepperSafetyConfig.maxContinuousSteps
  /\ retInt = -stepperSafetyConfig.maxContinuousSteps

\* C18 as stated: safety_init leaves the latch clear, currentMaxPWM equal to
\* maxMotorPWM, and lastHostCommandTime and motorStartTime both equal to the
\* current time.
C18_InitTimestampsNow ==
  lastOp = "init" =>
    /\ ~Latched
    /\ safetyState.currentMaxPWM = safetyConfig.maxMotorPWM
    /\ safetyState.lastHostCommandTime = now
    /\ safetyState.motorStartTime = now

\* C18 amended: safety_init leaves the latch clear, currentMaxPWM equal to
\* maxMotorPWM, lastHostCommandTime equal to the current time and
\* motorStartTime equal to 0.
C18_InitState ==
  lastOp = "init" =>
    /\ ~Latched
    /\ safetyState.currentMaxPWM = safetyConfig.maxMotorPWM
    /\ safetyState.lastHostCommandTime = now
    /\ safetyState.motorStartTime = 0

\* safety_init ran when millis() was not 0.
C18_Witness ==
  /\ lastOp = "init"
  /\ booted
  /\ now > 0

\* A safety_reset called right after a safety_check that found the heartbeat
\* timed out leaves the heartbeat timestamp, and so the timeout, in place.
ResetKeepsHostTimeout ==
  (lastOp = "check" /\ HostTrigger /\ lastOp' = "reset") =>
    /\ ~Latched'
    /\ safetyState'.lastHostCommandTime = safetyState.lastHostCommandTime
    /\ HostTrigger'

\* No call other than a heartbeat or a replacement of the configuration ends
\* a heartbeat timeout; time passing does not either.
HostTimeoutPersists ==
  (HostTrigger /\ lastOp' \notin { "host_heartbeat", "update_config" }) =>
    HostTrigger'

\* A safety_check entered with the heartbeat timed out sets the latch and
\* returns false.
CheckRelatches ==
  (HostTrigger /\ lastOp' = "check") =>
    (Latched' /\ ~retBool' /\
     safetyState'.violations > safetyState.violations)

\* safety_reset clears the motor-running flag, and with the flag clear and
\* no heartbeat timeout safety_check changes nothing and reports the latch.
ResetEndsRunTimeout ==
  /\ lastOp' = "reset" => (~safetyState'.motorRunning /\ ~RunTrigger')
  /\ (~safetyState.motorRunning /\ ~HostTrigger /\ lastOp' = "check") =>
       (safetyState' = safetyState /\ retBool' = ~Latched)

\* C19: safety_reset does not refresh the heartbeat timestamp, so after a
\* heartbeat timeout and a reset with no heartbeat in between the next
\* safety_check sets the latch again and returns false; after a continuous-run
\* timeout the reset clears motorRunning and the next safety_check does not
\* latch for that reason.
C19_ResetKeepsHeartbeatTimeout ==
  [][ /\ ResetKeepsHostTimeout
      /\ HostTimeoutPersists
      /\ CheckRelatches
      /\ ResetEndsRunTimeout ]_vars

\* safety_reset has just released a latch that a heartbeat timeout set, the
\* timeout still holds and safety_check can run next.
C19_Witness ==
  /\ lastOp = "reset"
  /\ ~Latched
  /\ HostTrigger
  /\ safetyState.violations = 1
  /\ ENABLED safety_check

\* safety_emergency_stop, called directly or from inside safety_check, keeps
\* the motor-running flag and both timestamps.
EmergencyStopKeepsTimers ==
  LET s == emergency_stop(safetyState)
  IN  /\ s.motorRunning = safetyState.motorRunning
      /\ s.motorStartTime = safetyState.motorStartTime
      /\ s.lastHostCommandTime = safetyState.lastHostCommandTime

\* C20: the violation counter counts safety_check calls made while a timeout
\* holds: with the latch already set, every safety_check entered while the
\* heartbeat or the continuous-run timeout holds increments the counter
\* again, once per timeout that holds, and leaves both timeouts holding,
\* because safety_emergency_stop keeps motorRunning and the timestamps.
C20_CountsChecksNotEvents ==
  [][ /\ (Latched /\ Triggers > 0 /\ lastOp' = "check") =>
           /\ safetyState'.violations = safetyState.violations + Triggers
           /\ safetyState'.violations > safetyState.violations
           /\ Latched'
      /\ lastOp' \in { "check", "emergency_stop" } =>
           /\ HostTrigger' = HostTrigger
           /\ RunTrigger' = RunTrigger
      /\ EmergencyStopKeepsTimers ]_vars

\* A safety_check has counted a second violation and the timeout it counted
\* still holds.
C20_Witness ==
  /\ lastOp = "check"
  /\ Latched
  /\ ~retBool
  /\ safetyState.violations >= 2
  /\ Triggers > 0

\* safety_motor_started records the current time as the start of the run,
\* whether or not the motor was already running, and nothing else moves the
\* start time.
MotorStartedRestartsTimer ==
  /\ lastOp' = "motor_started" =>
       /\ safetyState'.motorRunning
       /\ safetyState'.motorStartTime = now'
       /\ ~RunTrigger'
  /\ safetyState'.motorStartTime # safetyState.motorStartTime =>
       lastOp' = "motor_started"

\* The number of violations a safety_check counts for the continuous run:
\* what it adds to the counter beyond the heartbeat trigger.
RunViolations ==
  safetyState'.violations - safetyState.violations
    - (IF HostTrigger THEN 1 ELSE 0)

\* C21: safety_motor_started called while motorRunning is already true
\* overwrites motorStartTime with the current time; a safety_check made no
\* more than maxContinuousMs after the last safety_motor_started does not
\* fire the continuous-run trigger; and with motorRunning false the trigger
\* does not fire whatever the elapsed time.
C21_RunTimerRestarts ==
  [][ /\ MotorStartedRestartsTimer
      /\ (lastOp' = "check" /\ safetyState.motorRunning /\
          now - safetyState.motorStartTime <= safetyConfig.maxContinuousMs) =>
            RunViolations = 0
      /\ (lastOp' = "check" /\ ~safetyState.motorRunning) =>
            RunViolations = 0 ]_vars

\* The motor was started again after the clock had left 0, and a
\* safety_check made exactly maxContinuousMs later, more than maxContinuousMs
\* after boot, with the heartbeat fresh, counted nothing.
C21_Witness ==
  /\ lastOp = "check"
  /\ retBool
  /\ safetyState.motorRunning
  /\ safetyState.motorStartTime = 1
  /\ now - safetyState.motorStartTime = safetyConfig.maxContinuousMs
  /\ safetyState.violations = 0

\* The divisor of the map() call in safety_update_distance.
Divisor == safetyConfig.speedReduceCm - safetyConfig.emergencyStopCm

\* C22: safety_update_distance is total for every configuration, those with
\* speedReduceCm <= emergencyStopCm included: for every distance the call can
\* run, map() is evaluated only when emergencyStopCm < d <= speedReduceCm,
\* and then its divisor speedReduceCm - emergencyStopCm is > 0.
C22_DistanceTotal ==
  /\ \A distanceCm \in WideDistances :
       /\ ENABLED safety_update_distance(distanceCm)
       /\ interpolates(distanceCm) =>
            /\ safetyConfig.emergencyStopCm < distanceCm
            /\ distanceCm <= safetyConfig.speedReduceCm
            /\ Divisor > 0
  /\ Divisor <= 0 => \A distanceCm \in WideDistances :
       /\ ~interpolates(distanceCm)
       /\ update_distance(safetyState, distanceCm) \in
            { emergency_stop(safetyState),
              [ safetyState EXCEPT !.currentMaxPWM =
                                     safetyConfig.maxMotorPWM ] }

\* safety_update_distance ran under a configuration with
\* speedReduceCm <= emergencyStopCm for a distance beyond both thresholds.
C22_Witness ==
  /\ lastOp = "update_distance"
  /\ Divisor <= 0
  /\ lastArg > safetyConfig.emergencyStopCm
  /\ ~Latched
  /\ safetyState.currentMaxPWM = safetyConfig.maxMotorPWM

\* safety_clamp_motors run from the locals t to its return with no other
\* call in between, on the state s and the configuration c.
RECURSIVE run_clamp(_, _, _)
run_clamp(t, s, c) ==
  IF t.pc = Returned(clamp_motors_order)
    THEN t.clamped
    ELSE run_clamp(clamp_statement(clamp_motors_order[t.pc], t, s, c), s, c)

\* The locals of the interleaved safety_clamp_motors call as it began.
ClampEntry == [ tasks.clamp EXCEPT !.pc = 1, !.clamped = 0, !.loaded = 0 ]

\* The result of the call had it run entirely before the
\* safety_update_config call.
ResultBefore ==
  run_clamp(ClampEntry, tasks.entry.safetyState, tasks.entry.safetyConfig)

\* The result of the call had it run entirely after it.
ResultAfter ==
  run_clamp(ClampEntry,
            [ tasks.entry.safetyState EXCEPT !.currentMaxPWM =
                update_config_ceiling(tasks.entry.safetyState,
                                      tasks.update.newConfig) ],
            tasks.update.newConfig)

\* The two calls began in a state whose ceiling is within the configured
\* maximum.
EntryCeilingWithinConfig ==
  tasks.entry.safetyState.currentMaxPWM <=
    tasks.entry.safetyConfig.maxMotorPWM

ClampReturned == tasks.clamp.pc = Returned(clamp_motors_order)

\* Run with no call in between, the statements of safety_clamp_motors give
\* the value of the call, whichever way the build reads the variables.
ClampAlone ==
  \A requestedPWM \in ClampRequests, reloads \in BOOLEAN :
    run_clamp([ pc |-> 1, requestedPWM |-> requestedPWM, clamped |-> 0,
                loaded |-> 0, reloads |-> reloads ],
              safetyState, safetyConfig) = clamp_motors(requestedPWM)

====
